---- MODULE Spec2Model ----
(***************************************************************************)
(* Model of vfs/vfscommon/options.go: the Options record, the process-wide *)
(* DefaultOpt and Options.Init (umask, directory marker, exclusion globs). *)
(*                                                                         *)
(* Representation                                                          *)
(*   os.FileMode and uint32 values are the sets of their set bit positions *)
(*   (a subset of 0..31), so AND, OR and complement are exact on 32 bits.  *)
(*   Umask is a Go int; it is kept as an integer and converted as Go does  *)
(*   (low 32 bits of the two's complement value).                          *)
(*   time.Duration values are counted in milliseconds.                     *)
(*   A []*regexp.Regexp is a slice header (arr, len, cap) into a heap of   *)
(*   backing arrays, so that a struct copy shares what Go shares.          *)
(*   Strings that are inspected per character are tuples of characters.    *)
(***************************************************************************)
EXTENDS Integers, Sequences, FiniteSets, TLC

VARIABLES GOOS, DefaultOpt, copies, heap, diag, inits, defInited

vars == <<GOOS, DefaultOpt, copies, heap, diag, inits, defInited>>

(* ------------------------------ bounds --------------------------------- *)

\* number of records copied from DefaultOpt
MaxCopies == 2
\* number of times Init is applied to one record
MaxInits == 2
\* length of the VfsUploadExclude lists drawn as input
MaxGlobs == 3

(* --------------------------- bit arithmetic ---------------------------- *)

FileModeBits == 0..31

RECURSIVE BitsOf(_, _)
BitsOf(n, i) ==
    IF n = 0 THEN {}
    ELSE (IF n % 2 = 1 THEN {i} ELSE {}) \cup BitsOf(n \div 2, i + 1)

\* os.FileMode(n) for a Go int n: the low 32 bits of the two's complement
FileMode(n) == IF n >= 0 THEN BitsOf(n, 0) ELSE FileModeBits \ BitsOf(-(n + 1), 0)

AND(a, b) == a \cap b
OR(a, b) == a \cup b
NOT(a) == FileModeBits \ a

\* os.ModeDir = 1 << 31
ModeDir == {31}

MinInt32 == -2147483647 - 1

(* ------------------------------ defaults ------------------------------- *)

Millisecond == 1
Second == 1000 * Millisecond
Minute == 60 * Second
Mebi == 1048576

NilSlice == [arr |-> 0, len |-> 0, cap |-> 0]

DefaultDirPerms == FileMode(\o777)
DefaultFilePerms == FileMode(\o666)

DefaultOptWith(caseInsensitive) ==
    [NoModTime          |-> FALSE,
     NoChecksum         |-> FALSE,
     NoSeek             |-> FALSE,
     DirCacheTime       |-> 5 * 60 * Second,
     PollInterval       |-> Minute,
     ReadOnly           |-> FALSE,
     Umask              |-> 0,
     UID                |-> NOT({}),
     GID                |-> NOT({}),
     DirPerms           |-> DefaultDirPerms,
     FilePerms          |-> DefaultFilePerms,
     CacheMode          |-> "CacheModeOff",
     CacheMaxAge        |-> 3600 * Second,
     CachePollInterval  |-> 60 * Second,
     ChunkSize          |-> 128 * Mebi,
     ChunkSizeLimit     |-> -1,
     CacheMaxSize       |-> -1,
     CacheMinFreeSpace  |-> -1,
     CaseInsensitive    |-> caseInsensitive,
     WriteWait          |-> 1000 * Millisecond,
     ReadWait           |-> 20 * Millisecond,
     WriteBack          |-> 5 * Second,
     ReadAhead          |-> 0 * Mebi,
     UsedIsSize         |-> FALSE,
     FastFingerprint    |-> FALSE,
     DiskSpaceTotalSize |-> -1,
     VfsUploadExclude   |-> <<>>,
     VfsExcludeRegex    |-> NilSlice]

\* a plausible slip: only one of the two platforms is named
CaseInsensitiveWindowsOnly(goos) == goos = "windows"

\* runtime.GOOS == "windows" || runtime.GOOS == "darwin"
CaseInsensitiveDefault(goos) == goos = "windows" \/ goos = "darwin"

\* the value of the package variable DefaultOpt on host platform goos
DefaultOptValue(goos) == DefaultOptWith(CaseInsensitiveDefault(goos))

(* ------------------------- glob compiler (filter) ---------------------- *)
(* filter.GlobToRegexp: glob string and case-sensitivity flag in, compiled *)
(* matcher or error out.  A matcher is the token list the glob translates  *)
(* to, together with the flag it was compiled under.                       *)

NoError == ""
MismatchedBrackets == "mismatched '[' and ']'"

Token(kind, chars) == [kind |-> kind, chars |-> chars]

\* index of the first "]" after position k, 0 when there is none
CloseOf(g, k) ==
    LET js == {j \in (k + 1)..Len(g) : g[j] = "]"}
    IN IF js = {} THEN 0 ELSE CHOOSE j \in js : \A m \in js : j <= m

RECURSIVE Translate(_, _)
Translate(g, k) ==
    IF k > Len(g) THEN [toks |-> <<>>, err |-> NoError]
    ELSE LET c == g[k]
             j == CloseOf(g, k)
             double == c = "*" /\ k < Len(g) /\ g[k + 1] = "*"
             tok == IF c = "[" THEN Token("class", {g[m] : m \in (k + 1)..(j - 1)})
                    ELSE IF double THEN Token("anyPath", {})
                    ELSE IF c = "*" THEN Token("anySegment", {})
                    ELSE IF c = "?" THEN Token("oneChar", {})
                    ELSE Token("literal", {c})
             next == IF c = "[" THEN j + 1 ELSE IF double THEN k + 2 ELSE k + 1
         IN IF (c = "[" /\ j = 0) \/ c = "]"
            THEN [toks |-> <<>>, err |-> MismatchedBrackets]
            ELSE LET rest == Translate(g, next)
                 IN IF rest.err # NoError THEN rest
                    ELSE [toks |-> <<tok>> \o rest.toks, err |-> NoError]

\* the flag is read the other way round (as "ignore case")
GlobToRegexpIgnoreCase(glob, caseSensitive) ==
    LET t == Translate(glob, 1)
    IN [re  |-> [caseSensitive |-> ~caseSensitive, toks |-> t.toks],
        err |-> t.err]

GlobToRegexp(glob, caseSensitive) ==
    LET t == Translate(glob, 1)
    IN [re  |-> [caseSensitive |-> caseSensitive, toks |-> t.toks],
        err |-> t.err]

Lower(c) ==
    CASE c = "A" -> "a" [] c = "C" -> "c" [] c = "E" -> "e" [] c = "H" -> "h"
      [] c = "M" -> "m" [] c = "P" -> "p" [] c = "T" -> "t" [] OTHER -> c

SameChar(re, a, b) == IF re.caseSensitive THEN a = b ELSE Lower(a) = Lower(b)

RECURSIVE MatchFrom(_, _, _, _)
MatchFrom(re, i, path, j) ==
    IF i > Len(re.toks) THEN j > Len(path)
    ELSE LET t == re.toks[i]
             more == j <= Len(path)
         IN CASE t.kind = "literal" ->
                   more /\ (\E c \in t.chars : SameChar(re, c, path[j]))
                        /\ MatchFrom(re, i + 1, path, j + 1)
              [] t.kind = "class" ->
                   more /\ (\E c \in t.chars : SameChar(re, c, path[j]))
                        /\ MatchFrom(re, i + 1, path, j + 1)
              [] t.kind = "oneChar" ->
                   more /\ path[j] # "/" /\ MatchFrom(re, i + 1, path, j + 1)
              [] t.kind = "anySegment" ->
                   \/ MatchFrom(re, i + 1, path, j)
                   \/ more /\ path[j] # "/" /\ MatchFrom(re, i, path, j + 1)
              [] t.kind = "anyPath" ->
                   \/ MatchFrom(re, i + 1, path, j)
                   \/ more /\ MatchFrom(re, i, path, j + 1)

\* regexp.MatchString of a compiled matcher on a relative path
Match(re, path) == MatchFrom(re, 1, path, 1)

(* ------------------------------ Go slices ------------------------------ *)

\* the elements a slice header shows
Elements(h, s) == IF s.arr = 0 THEN <<>> ELSE SubSeq(h[s.arr].elems, 1, s.len)

\* append(s, x): in place while the backing array has room, otherwise into
\* a fresh array of doubled capacity
append(h, s, x) ==
    IF s.len < s.cap
    THEN LET a  == h[s.arr]
             el == IF s.len + 1 <= Len(a.elems)
                   THEN [a.elems EXCEPT ![s.len + 1] = x]
                   ELSE Append(a.elems, x)
         IN [heap  |-> [h EXCEPT ![s.arr] = [cap |-> a.cap, elems |-> el]],
             slice |-> [s EXCEPT !.len = s.len + 1]]
    ELSE LET newcap == IF s.cap = 0 THEN 1 ELSE 2 * s.cap
         IN [heap  |-> Append(h, [cap |-> newcap, elems |-> Append(Elements(h, s), x)]),
             slice |-> [arr |-> Len(h) + 1, len |-> s.len + 1, cap |-> newcap]]

(* ----------------------------- Options.Init ---------------------------- *)

\* fs.Errorf(pattern, "Could not generate regex from glob ...: %v", err)
Errorf(subject, cause) ==
    [subject |-> subject,
     msg     |-> "Could not generate regex from glob for VFS cache exclusion",
     cause   |-> cause]

\* the loop leaves at the first glob that does not compile
RECURSIVE rangeLoopBreak(_, _, _, _, _)
rangeLoopBreak(h, s, log, globs, k) ==
    IF k > Len(globs) THEN [heap |-> h, slice |-> s, log |-> log]
    ELSE LET r == GlobToRegexp(globs[k], TRUE)
         IN IF r.err # NoError
            THEN [heap |-> h, slice |-> s, log |-> Append(log, Errorf(globs[k], r.err))]
            ELSE LET a == append(h, s, r.re)
                 IN rangeLoopBreak(a.heap, a.slice, log, globs, k + 1)

\* for _, pattern := range opt.VfsUploadExclude { ... }, from element k on
RECURSIVE rangeLoop(_, _, _, _, _)
rangeLoop(h, s, log, globs, k) ==
    IF k > Len(globs) THEN [heap |-> h, slice |-> s, log |-> log]
    ELSE LET r == GlobToRegexp(globs[k], TRUE)
         IN IF r.err # NoError
            THEN rangeLoop(h, s, Append(log, Errorf(globs[k], r.err)), globs, k + 1)
            ELSE LET a == append(h, s, r.re)
                 IN rangeLoop(a.heap, a.slice, log, globs, k + 1)

\* the patterns are compiled only for a record without umask
initializeExclusionPatternsUnmasked(h, opt, log) ==
    LET r == rangeLoop(h, opt.VfsExcludeRegex, log,
                       IF opt.Umask = 0 THEN opt.VfsUploadExclude ELSE <<>>, 1)
    IN [heap |-> r.heap, opt |-> [opt EXCEPT !.VfsExcludeRegex = r.slice], log |-> r.log]

initializeExclusionPatterns(h, opt, log) ==
    LET r == rangeLoop(h, opt.VfsExcludeRegex, log, opt.VfsUploadExclude, 1)
    IN [heap |-> r.heap, opt |-> [opt EXCEPT !.VfsExcludeRegex = r.slice], log |-> r.log]

\* the umask is applied without the complement
MaskPermsNoComplement(opt) ==
    [opt EXCEPT !.DirPerms  = AND(@, FileMode(opt.Umask)),
                !.FilePerms = AND(@, FileMode(opt.Umask))]

\* opt.DirPerms &= ^os.FileMode(opt.Umask); opt.FilePerms &= ^os.FileMode(opt.Umask)
MaskPerms(opt) ==
    [opt EXCEPT !.DirPerms  = AND(@, NOT(FileMode(opt.Umask))),
                !.FilePerms = AND(@, NOT(FileMode(opt.Umask)))]

\* opt.DirPerms |= os.ModeDir
MarkDir(opt) == [opt EXCEPT !.DirPerms = OR(@, ModeDir)]

\* the marker is set before the umask is applied
OptionsInitMarkerFirst(h, opt, log) ==
    initializeExclusionPatterns(h, MaskPerms(MarkDir(opt)), log)

\* the pattern list is emptied before the globs are compiled
OptionsInitResetPatterns(h, opt, log) ==
    initializeExclusionPatterns(h, [MarkDir(MaskPerms(opt)) EXCEPT !.VfsExcludeRegex = NilSlice], log)

\* the chunk size limit is raised to the chunk size
OptionsInitClampChunk(h, opt, log) ==
    initializeExclusionPatterns(h,
        [MarkDir(MaskPerms(opt)) EXCEPT
            !.ChunkSizeLimit = IF @ >= 0 /\ @ < opt.ChunkSize THEN opt.ChunkSize ELSE @],
        log)

\* func (opt *Options) Init()
OptionsInit(h, opt, log) ==
    initializeExclusionPatterns(h, MarkDir(MaskPerms(opt)), log)

(* ------------------------------- inputs -------------------------------- *)

Platforms == {"windows", "darwin", "linux"}

GlobTmp == <<"*", ".", "t", "m", "p">>
GlobOpen == <<"[">>
GlobCache == <<"c", "a", "c", "h", "e", "/", "*", "*">>
Globs == {GlobTmp, GlobOpen, GlobCache}

RECURSIVE SeqsUpTo(_, _)
SeqsUpTo(S, n) ==
    IF n = 0 THEN {<<>>}
    ELSE LET shorter == SeqsUpTo(S, n - 1)
         IN shorter \cup {Append(q, x) : q \in shorter, x \in S}

GlobLists == SeqsUpTo(Globs, MaxGlobs)

UmaskInputs == {0, \o022, \o777, -1, MinInt32, MinInt32 + \o022}
DirPermsInputs == {FileMode(\o777), FileMode(0), OR(FileMode(\o755), ModeDir)}
FilePermsInputs == {FileMode(\o666), FileMode(0)}
ChunkInputs == {<<128 * Mebi, -1>>, <<128 * Mebi, 64 * Mebi>>}

\* the records callers populate: DefaultOpt with fields overridden
Populated(goos) ==
    {[DefaultOptValue(goos) EXCEPT
        !.Umask = u, !.DirPerms = d, !.FilePerms = f,
        !.ChunkSize = c[1], !.ChunkSizeLimit = c[2], !.VfsUploadExclude = g] :
      u \in UmaskInputs, d \in DirPermsInputs, f \in FilePermsInputs,
      c \in ChunkInputs, g \in GlobLists}

(* ------------------------------- actions ------------------------------- *)

Init ==
    /\ GOOS \in Platforms
    /\ DefaultOpt = DefaultOptValue(GOOS)
    /\ copies = <<>>
    /\ heap = <<>>
    /\ diag = <<>>
    /\ inits = <<>>
    /\ defInited = FALSE

\* opt := vfscommon.DefaultOpt; opt.Umask = umask; opt.VfsUploadExclude = globs
NewOptions(umask, globs) ==
    /\ Len(copies) < MaxCopies
    /\ copies' = Append(copies, [DefaultOpt EXCEPT !.Umask = umask,
                                                   !.VfsUploadExclude = globs])
    /\ inits' = Append(inits, 0)
    /\ UNCHANGED <<GOOS, DefaultOpt, heap, diag, defInited>>

\* Init reaches the package variable instead of its receiver
InitCopyOnDefault(i) ==
    /\ inits[i] < MaxInits
    /\ LET r == OptionsInit(heap, DefaultOpt, diag)
       IN /\ DefaultOpt' = r.opt
          /\ heap' = r.heap
          /\ diag' = r.log
    /\ inits' = [inits EXCEPT ![i] = @ + 1]
    /\ UNCHANGED <<GOOS, copies, defInited>>

\* copies[i].Init()
InitCopy(i) ==
    /\ inits[i] < MaxInits
    /\ LET r == OptionsInit(heap, copies[i], diag)
       IN /\ copies' = [copies EXCEPT ![i] = r.opt]
          /\ heap' = r.heap
          /\ diag' = r.log
    /\ inits' = [inits EXCEPT ![i] = @ + 1]
    /\ UNCHANGED <<GOOS, DefaultOpt, defInited>>

\* DefaultOpt.Init()
InitDefaultOpt ==
    /\ LET r == OptionsInit(heap, DefaultOpt, diag)
       IN /\ DefaultOpt' = r.opt
          /\ heap' = r.heap
          /\ diag' = r.log
    /\ defInited' = TRUE
    /\ UNCHANGED <<GOOS, copies, inits>>

\* <<Umask, VfsUploadExclude>> as overridden by the callers
Overrides ==
    {<<0, <<>> >>, <<0, <<GlobTmp, GlobOpen>> >>, <<\o022, <<GlobTmp, GlobOpen>> >>}

Next ==
    \/ \E o \in Overrides : NewOptions(o[1], o[2])
    \/ \E i \in DOMAIN copies : InitCopy(i)
    \/ InitDefaultOpt

Spec == Init /\ [][Next]_vars

\* one populated record, normalised repeatedly
InitNormalize ==
    /\ GOOS \in Platforms
    /\ DefaultOpt = DefaultOptValue(GOOS)
    /\ copies \in {<<o>> : o \in Populated(GOOS)}
    /\ heap = <<>>
    /\ diag = <<>>
    /\ inits = <<0>>
    /\ defInited = FALSE

NextNormalize == \E i \in DOMAIN copies : InitCopy(i)

SpecNormalize == InitNormalize /\ [][NextNormalize]_vars

(* ------------------------------ properties ----------------------------- *)

Copies == DOMAIN copies
Patterns(i) == Elements(heap, copies[i].VfsExcludeRegex)
InitStep(i) == inits'[i] = inits[i] + 1

WellFormed(g) == Translate(g, 1).err = NoError
Malformed(g) == ~WellFormed(g)
Toks(res) == [k \in DOMAIN res |-> res[k].toks]
Subjects(log) == [k \in DOMAIN log |-> log[k].subject]

\* C1: after Init the directory marker bit is set in DirPerms, for every
\* DirPerms input and every Umask, also one that clears every bit, one that
\* holds the marker bit itself, and a negative one.
C1_MarkerAlwaysSet ==
    \A i \in Copies :
        inits[i] >= 1 => AND(copies[i].DirPerms, ModeDir) = ModeDir

C1_Witness ==
    \E i \in Copies :
        /\ inits[i] >= 1
        /\ copies[i].Umask < 0
        /\ 31 \in FileMode(copies[i].Umask)
        /\ copies[i].DirPerms = ModeDir

\* C2: an Init step leaves in FilePerms exactly the input bits the umask does
\* not hold, and in DirPerms those of the input plus the marker bit; umask
\* 0022 turns 0777 / 0666 into 0755 plus marker / 0644.
C2_UmaskApplied ==
    [][\A i \in Copies : InitStep(i) =>
          LET um == FileMode(copies[i].Umask)
          IN /\ \A b \in FileModeBits :
                  /\ b \in copies'[i].FilePerms
                       <=> (b \in copies[i].FilePerms /\ b \notin um)
                  /\ b \in copies'[i].DirPerms
                       <=> (b = 31 \/ (b \in copies[i].DirPerms /\ b \notin um))
             /\ ( /\ copies[i].Umask = \o022
                  /\ copies[i].DirPerms = FileMode(\o777)
                  /\ copies[i].FilePerms = FileMode(\o666) )
                => /\ copies'[i].DirPerms = FileMode(\o755) \cup {31}
                   /\ copies'[i].FilePerms = FileMode(\o644)]_vars

C2_Witness ==
    \E i \in Copies :
        /\ inits[i] = 1
        /\ copies[i].Umask = \o022
        /\ copies[i].DirPerms = FileMode(\o755) \cup {31}
        /\ copies[i].FilePerms = FileMode(\o644)

\* C3: after one Init of a record whose pattern list was empty, the list is
\* the translation of the well-formed globs in their order; it is as long as
\* the glob list when no glob is malformed and one shorter when one is.
C3_CompiledInOrder ==
    \A i \in Copies :
        inits[i] = 1 =>
            LET globs == copies[i].VfsUploadExclude
                good  == SelectSeq(globs, WellFormed)
                bad   == SelectSeq(globs, Malformed)
            IN /\ Toks(Patterns(i)) = [k \in DOMAIN good |-> Translate(good[k], 1).toks]
               /\ Len(bad) = 0 => Len(Patterns(i)) = Len(globs)
               /\ Len(bad) = 1 => Len(Patterns(i)) = Len(globs) - 1

C3_Witness ==
    \E i \in Copies :
        /\ inits[i] = 1
        /\ copies[i].VfsUploadExclude = <<GlobTmp, GlobOpen, GlobCache>>
        /\ Toks(Patterns(i)) = <<Translate(GlobTmp, 1).toks, Translate(GlobCache, 1).toks>>

\* C4: Init runs through the whole glob list wherever the malformed globs
\* sit: each step adds one diagnostic per malformed glob, naming it, in
\* order, none for a well-formed glob, and accounts for every glob;
\* ["*.tmp", "[", "cache/**"] gives 2 patterns and one diagnostic about "[".
C4_NoAbortOneDiagnosticEach ==
    [][\A i \in Copies : InitStep(i) =>
          LET globs == copies[i].VfsUploadExclude
              added == SubSeq(diag', Len(diag) + 1, Len(diag'))
              after == Elements(heap', copies'[i].VfsExcludeRegex)
          IN /\ SubSeq(diag', 1, Len(diag)) = diag
             /\ Subjects(added) = SelectSeq(globs, Malformed)
             /\ \A k \in DOMAIN added : added[k].cause # NoError
             /\ (Len(after) - Len(Patterns(i))) + Len(added) = Len(globs)
             /\ (inits[i] = 0 /\ globs = <<GlobTmp, GlobOpen, GlobCache>>)
                => /\ Len(after) = 2
                   /\ Subjects(diag') = <<GlobOpen>>]_vars

C4_Witness ==
    \E i \in Copies :
        /\ inits[i] = 1
        /\ copies[i].VfsUploadExclude = <<GlobOpen, GlobOpen, GlobTmp>>
        /\ Subjects(diag) = <<GlobOpen, GlobOpen>>
        /\ Len(Patterns(i)) = 1

\* C5 as stated: two initialised records with the same VfsUploadExclude have
\* the same pattern list, whatever the list held before, and never more
\* patterns than globs.
C5_SolelyFromGlobs ==
    \A i, j \in Copies :
        ( /\ inits[i] >= 1 /\ inits[j] >= 1
          /\ copies[i].VfsUploadExclude = copies[j].VfsUploadExclude )
        => /\ Patterns(i) = Patterns(j)
           /\ Len(Patterns(i)) <= Len(copies[i].VfsUploadExclude)

\* C5 amended: two records with the same VfsUploadExclude, each initialised
\* once from an empty pattern list, have the same pattern list whatever their
\* other fields, and no more patterns than globs.
C5_SolelyFromGlobsOnce ==
    \A i, j \in Copies :
        ( /\ inits[i] = 1 /\ inits[j] = 1
          /\ copies[i].VfsUploadExclude = copies[j].VfsUploadExclude )
        => /\ Patterns(i) = Patterns(j)
           /\ Len(Patterns(i)) <= Len(copies[i].VfsUploadExclude)

C5_Witness ==
    \E i, j \in Copies :
        /\ inits[i] = 1 /\ inits[j] = 1
        /\ copies[i].VfsUploadExclude = copies[j].VfsUploadExclude
        /\ copies[i].Umask # copies[j].Umask
        /\ copies[i].DirPerms # copies[j].DirPerms
        /\ Len(Patterns(i)) >= 1

\* C6: the second Init of a record leaves DirPerms and FilePerms as the first
\* left them and appends the compiled patterns once more: the list becomes
\* the list after the first Init twice over.
C6_SecondInitDoubles ==
    [][\A i \in Copies : (inits[i] = 1 /\ InitStep(i)) =>
          /\ copies'[i].DirPerms = copies[i].DirPerms
          /\ copies'[i].FilePerms = copies[i].FilePerms
          /\ Elements(heap', copies'[i].VfsExcludeRegex) = Patterns(i) \o Patterns(i)]_vars

C6_Witness ==
    \E i \in Copies :
        /\ inits[i] = 2
        /\ copies[i].VfsUploadExclude = <<GlobTmp, GlobOpen, GlobCache>>
        /\ Len(Patterns(i)) = 4

OtherFields == DOMAIN DefaultOptValue("linux") \ {"DirPerms", "FilePerms", "VfsExcludeRegex"}

\* C7: an Init step changes no field but DirPerms, FilePerms and
\* VfsExcludeRegex: the -1 and all-ones sentinels stay, ChunkSizeLimit stays
\* also when it is below ChunkSize, Umask and VfsUploadExclude stay.
C7_OtherFieldsKept ==
    /\ [](\A i \in Copies :
            /\ copies[i].CacheMaxSize = -1
            /\ copies[i].CacheMinFreeSpace = -1
            /\ copies[i].DiskSpaceTotalSize = -1
            /\ copies[i].UID = FileModeBits
            /\ copies[i].GID = FileModeBits)
    /\ [][\A i \in Copies : InitStep(i) =>
            \A f \in OtherFields : copies'[i][f] = copies[i][f]]_vars

C7_Witness ==
    \E i \in Copies :
        /\ inits[i] >= 1
        /\ copies[i].ChunkSizeLimit = 64 * Mebi
        /\ copies[i].ChunkSize = 128 * Mebi
        /\ copies[i].Umask = \o022
        /\ Len(copies[i].VfsUploadExclude) = 3

PathTmp == <<"a", ".", "t", "m", "p">>
PathTmpUpper == <<"a", ".", "T", "M", "P">>
PathCache == <<"c", "a", "c", "h", "e", "/", "x">>
PathCacheUpper == <<"C", "A", "C", "H", "E", "/", "x">>
\* a path and the path that differs from it only in the case of the letters
\* the globs spell out
CasePairs == {<<PathTmp, PathTmpUpper>>, <<PathCache, PathCacheUpper>>}

C9_CaseInsensitiveByPlatform ==
    /\ GOOS \in {"windows", "darwin"} => DefaultOpt.CaseInsensitive = TRUE
    /\ GOOS \notin {"windows", "darwin"} => DefaultOpt.CaseInsensitive = FALSE

C9_Witness ==
    /\ GOOS = "darwin"
    /\ DefaultOpt.CaseInsensitive
    /\ defInited
    /\ Copies # {}

Visible(h, o) == <<o.DirPerms, o.FilePerms, Elements(h, o.VfsExcludeRegex)>>

\* C10: while Init is not called on DefaultOpt itself, DefaultOpt keeps
\* DirPerms 0777, FilePerms 0666 and no patterns; a step changes the
\* permissions or patterns of a copy only by Init on that copy, and changes
\* DefaultOpt only by Init on DefaultOpt.
C10_CopiesIndependent ==
    /\ [](~defInited =>
            Visible(heap, DefaultOpt) = <<DefaultDirPerms, DefaultFilePerms, <<>> >>)
    /\ [][ /\ \A j \in Copies :
                Visible(heap', copies'[j]) # Visible(heap, copies[j]) => InitStep(j)
           /\ \A i, j \in Copies : (InitStep(i) /\ InitStep(j)) => i = j
           /\ (DefaultOpt' # DefaultOpt
               \/ Visible(heap', DefaultOpt') # Visible(heap, DefaultOpt))
              => (~defInited /\ defInited') ]_vars

C10_Witness ==
    /\ defInited = FALSE
    /\ Len(copies) = 2
    /\ inits[1] >= 1 /\ inits[2] >= 1
    /\ Len(Patterns(1)) >= 1 /\ Len(Patterns(2)) >= 1
    /\ copies[1].VfsExcludeRegex.arr # copies[2].VfsExcludeRegex.arr
    /\ copies[1].DirPerms # copies[2].DirPerms

====
